---- MODULE Spec2Model ----
(***************************************************************************)
(* otx2crits: OTX2CRITs.execute pulls pulses from the AlienVault OTX feed  *)
(* through the lazy generator get_pulse_generator and writes each pulse    *)
(* that is not yet in CRITs as an Event, a ticket, Indicators and          *)
(* relationships.  The feed and the CRITs repository are the environment:  *)
(* every remote call answers with success or failure, chosen freely.       *)
(***************************************************************************)
EXTENDS Integers, Sequences, FiniteSets, TLC

(* ------------------------------ bounds --------------------------------- *)
\* feed pages (URLs) that exist
MaxPages == 2
\* pulses in the whole feed, over all its pages
MaxPulses == 2
\* indicator records of one pulse, in the single-pulse specifications
MaxInd == 2
\* remote calls that may fail in one behaviour of Spec
MaxFailures == 2

VARIABLES
    feed,              \* URL -> page: the feed's contents (the environment's)
    runs,              \* how many times main() is invoked
    modified_since,    \* self.modified_since: the age limit of the pulses
    budget,            \* failures the environment may still produce
    events,            \* CRITs: the Events, each with its tickets
    indicators,        \* CRITs: the Indicators
    relationships,     \* CRITs: the forged Event -> Indicator relationships
    run,               \* the current invocation of main()
    pc,                \* where execute stands
    gpc,               \* where the generator stands: start, for, done
    all_pulses,        \* the generator's current page
    idx,               \* the generator's position in all_pulses['results']
    pulse,             \* execute's loop variable
    relationship_map,  \* execute's list of created indicator ids
    event_id,          \* execute's event id
    i,                 \* position of `for i in indicator_data`
    j,                 \* position of `for _id in relationship_map`
    calls,             \* history: every remote call, in the order issued
    yielded,           \* history: every pulse the generator yielded
    terminal           \* history: every pulse's terminal state

vars == <<feed, runs, modified_since, budget, events, indicators, relationships, run, pc, gpc,
          all_pulses, idx, pulse, relationship_map, event_id, i, j, calls,
          yielded, terminal>>

(* --------------------------- the mapping table ------------------------- *)
\* Python's None
None == "None"

\* mutant: the table without the synonyms and case variants
get_indicator_mapping_nosyn ==
    ("FileHash-SHA256" :> "it.SHA256") @@
    ("FileHash-SHA1" :> "it.SHA1") @@
    ("URI" :> "it.URI") @@
    ("hostname" :> "it.DOMAIN") @@
    ("IPv4" :> "it.IPV4_ADDRESS") @@
    ("IPv6" :> "it.IPV6_ADDRESS") @@
    ("email" :> "it.EMAIL_ADDRESS") @@
    ("filepath" :> "it.FILE_PATH") @@
    ("FileHash-MD5" :> "it.MD5") @@
    ("Imphash" :> "it.IMPHASH") @@
    ("PEhash" :> None) @@
    ("CIDR" :> "it.IPV4_SUBNET") @@
    ("mutex" :> "it.MUTEX") @@
    ("CVE" :> None) @@
    ("Yara" :> None)

\* the dictionary of get_indicator_mapping; it.X is written "it.X"
get_indicator_mapping ==
    ("FileHash-SHA256" :> "it.SHA256") @@
    ("FileHash-SHA1" :> "it.SHA1") @@
    ("URI" :> "it.URI") @@
    ("URL" :> "it.URI") @@
    ("hostname" :> "it.DOMAIN") @@
    ("domain" :> "it.DOMAIN") @@
    ("IPv4" :> "it.IPV4_ADDRESS") @@
    ("IPv6" :> "it.IPV6_ADDRESS") @@
    ("email" :> "it.EMAIL_ADDRESS") @@
    ("Email" :> "it.EMAIL_ADDRESS") @@
    ("filepath" :> "it.FILE_PATH") @@
    ("Filepath" :> "it.FILE_PATH") @@
    ("FilePath" :> "it.FILE_PATH") @@
    ("FileHash-MD5" :> "it.MD5") @@
    ("Imphash" :> "it.IMPHASH") @@
    ("PEhash" :> None) @@
    ("CIDR" :> "it.IPV4_SUBNET") @@
    ("mutex" :> "it.MUTEX") @@
    ("Mutex" :> "it.MUTEX") @@
    ("CVE" :> None) @@
    ("Yara" :> None)

(* ------------------------------ the inputs ----------------------------- *)
SeqsUpTo(S, n) == UNION {[1..k -> S] : k \in 0..n}

\* feed type strings that are not keys of the table
AbsentTypes == {"FileHash-PEHASH", "url", "IPV4"}

Indicator(t, v) == [type |-> t, indicator |-> v]

Pulse(id, d, refs, inds) ==
    [id |-> id, description |-> d, references |-> refs, indicators |-> inds]

\* the pulses of Spec: two identifiers, each with fixed contents
FeedPulses ==
    { Pulse("p1", "", <<>>, <<Indicator("IPv4", "1.2.3.4")>>),
      Pulse("p2", "d2", <<"r1">>, <<Indicator("Yara", "rule1"),
                                     Indicator("URL", "u1")>>) }

NoPulse == Pulse("", "", <<>>, <<>>)

\* the pages that can stand at URL u: the JSON object of one response.
\* next = 0 is null; a key that is absent carries no value; every link
\* leads forward, so that the chain of pages is finite
PagesAt(P, u) ==
    { pg \in [has_results : BOOLEAN, results : SeqsUpTo(P, MaxPulses),
              has_next : BOOLEAN, next : {0} \cup ((u + 1)..MaxPages)] :
        /\ ~pg.has_results => pg.results = <<>>
        /\ ~pg.has_next => pg.next = 0 }

EmptyPage == [has_results |-> FALSE, results |-> <<>>, has_next |-> FALSE, next |-> 0]

FirstUrl == 1

RECURSIVE Chain(_, _)
\* the URLs the 'next' links lead through, from URL u on
Chain(f, u) ==
    IF f[u].has_next /\ f[u].next # 0
    THEN <<u>> \o Chain(f, f[u].next)
    ELSE <<u>>

InChain(f, u) == \E k \in 1..Len(Chain(f, FirstUrl)) : Chain(f, FirstUrl)[k] = u

RECURSIVE PulseCount(_, _)
\* the pulses on the pages u..MaxPages
PulseCount(f, u) ==
    IF u > MaxPages THEN 0 ELSE Len(f[u].results) + PulseCount(f, u + 1)

RECURSIVE FeedsFrom(_, _)
\* the assignments of pages to the URLs u..MaxPages
FeedsFrom(P, u) ==
    IF u > MaxPages
    THEN {<<>>}
    ELSE { (u :> pg) @@ g : pg \in PagesAt(P, u), g \in FeedsFrom(P, u + 1) }

\* the feeds: at most MaxPulses pulses in all; a page nothing links to is
\* left empty
Feeds(P) ==
    { f \in FeedsFrom(P, 1) :
        /\ PulseCount(f, 1) <= MaxPulses
        /\ \A u \in 1..MaxPages : ~InChain(f, u) => f[u] = EmptyPage }

(* ----------------------------- the repository -------------------------- *)
\* mutant: the query counts every Event, ticketed or not
event_count_all(pulse_id) == Len(events)

\* pycrits.event_count with params {'c-tickets.ticket_number': pulse_id}:
\* the number of Events holding a ticket with that number
event_count(pulse_id) ==
    Cardinality({ e \in 1..Len(events) :
                    \E k \in 1..Len(events[e].tickets) :
                        events[e].tickets[k] = pulse_id })

\* mutant: no pulse is ever found
is_pulse_in_crits_never(pulse_id) == FALSE

\* mutant: the count is compared with 1
is_pulse_in_crits_gt1(pulse_id) == event_count(pulse_id) > 1

is_pulse_in_crits(pulse_id) == event_count(pulse_id) > 0

\* an Event imported by an earlier run, with its ticket
OldEvent(pulse_id) ==
    [description |-> "old", reference |-> "old", tickets |-> <<pulse_id>>]

(* ------------------------------ the history ---------------------------- *)
\* one remote call: n is the ordinal of the pulse it was issued for (0 for a
\* feed request), a and b its string arguments, eid and k its numeric ones
Call(op, n, pid, eid, k, a, b, ok, ret) ==
    [op |-> op, run |-> run, n |-> n, pid |-> pid, eid |-> eid, k |-> k,
     a |-> a, b |-> b, ok |-> ok, ret |-> ret]

\* the ordinal of the pulse being processed
CurN == Len(yielded)

Terminal(state) == [run |-> run, n |-> CurN, pid |-> pulse.id, state |-> state]

\* the environment may fail a call while its budget lasts
MayAnswer(ok) == IF ok THEN TRUE ELSE budget > 0
Charge(ok) == IF ok THEN budget ELSE budget - 1

(* ------------------------------ the feed client ------------------------ *)
\* mutant: the status code is not looked at
send_otx_get_anystatus(url, ok) == [truthy |-> TRUE, url |-> url]

\* send_otx_get: the text of the page on status 200, False otherwise
send_otx_get(url, ok) == [truthy |-> ok, url |-> IF ok THEN url ELSE 0]

\* `while response_data:` entered with a fresh response: the page is parsed
\* and its results are iterated, or the generator is exhausted and the for
\* loop of execute ends
EnterWhile(response_data) ==
    IF response_data.truthy
    THEN /\ all_pulses' = feed[response_data.url]
         /\ idx' = 1
         /\ gpc' = "for"
         /\ pc' = pc
    ELSE /\ gpc' = "done"
         /\ pc' = "returned"
         /\ UNCHANGED <<all_pulses, idx>>

\* mutant: the generator runs ahead of the loop body
Resumed_ahead == pc \in {"next", "body"}

\* the generator runs only when the for loop of execute asks it for the next
\* pulse; a yield suspends it until then
Resumed == pc = "next"

\* self.modified_since when no number of days was given (None)
NoTime == [date |-> "", time |-> "", microsecond |-> ""]

\* a datetime.now() - timedelta(days=days)
SomeTime == [date |-> "2016-11-01", time |-> "12:00:00", microsecond |-> "000123"]

\* strftime('%Y-%m-%d %H:%M:%S.%f')
strftime(t) == t.date \o " " \o t.time \o "." \o t.microsecond

RECURSIVE Join(_, _)
\* sep.join(args)
Join(args, sep) ==
    IF Len(args) = 0 THEN ""
    ELSE IF Len(args) = 1 THEN args[1]
    ELSE args[1] \o sep \o Join(Tail(args), sep)

\* the query string of the first request
request_args(since) ==
    LET args == (IF since # NoTime
                 THEN <<"modified_since=" \o strftime(since)>>
                 ELSE <<>>) \o <<"limit=10", "page=1">>
    IN  "?" \o Join(args, "&")

\* the first call of next(): the client builds the first request
GenStart ==
    /\ Resumed /\ gpc = "start"
    /\ \E ok \in BOOLEAN :
        /\ MayAnswer(ok)
        /\ budget' = Charge(ok)
        /\ calls' = Append(calls, Call("feed", 0, "", 0, FirstUrl,
                                       request_args(modified_since), "", ok, 0))
        /\ EnterWhile(send_otx_get(FirstUrl, ok))
    /\ UNCHANGED <<feed, runs, modified_since, events, indicators, relationships, run, pulse,
                   relationship_map, event_id, i, j, yielded, terminal>>

\* mutant: the last pulse of a page is not yielded
MoreResults_short ==
    all_pulses.has_results /\ idx < Len(all_pulses.results)

\* `if 'results' in all_pulses`, and the for loop over them has not ended
MoreResults ==
    all_pulses.has_results /\ idx <= Len(all_pulses.results)

\* `for pulse in all_pulses['results']: yield pulse`
GenYield ==
    /\ Resumed /\ gpc = "for"
    /\ MoreResults
    /\ pulse' = all_pulses.results[idx]
    /\ idx' = idx + 1
    /\ yielded' = Append(yielded, [run |-> run, pulse |-> all_pulses.results[idx]])
    /\ pc' = "body"
    /\ UNCHANGED <<feed, runs, modified_since, budget, events, indicators, relationships, run,
                   gpc, all_pulses, relationship_map, event_id, i, j, calls,
                   terminal>>

\* mutant: the client requests its first URL again
NextUrl_rebuilt(page) == FirstUrl

\* the URL the generator requests after a page: all_pulses['next'] as it is
NextUrl(page) == page.next

\* the page is exhausted: response_data = None, then the 'next' link is
\* followed when the key is present and its value is truthy
GenFollow ==
    /\ Resumed /\ gpc = "for"
    /\ ~MoreResults
    /\ IF all_pulses.has_next /\ all_pulses.next # 0
       THEN \E ok \in BOOLEAN :
              /\ MayAnswer(ok)
              /\ budget' = Charge(ok)
              /\ calls' = Append(calls, Call("feed", 0, "", 0,
                                             NextUrl(all_pulses), "", "", ok, 0))
              /\ EnterWhile(send_otx_get(NextUrl(all_pulses), ok))
       ELSE /\ EnterWhile([truthy |-> FALSE, url |-> 0])
            /\ UNCHANGED <<budget, calls>>
    /\ UNCHANGED <<feed, runs, modified_since, events, indicators, relationships, run, pulse,
                   relationship_map, event_id, i, j, yielded, terminal>>

(* ------------------------------- execute ------------------------------- *)
\* the reference passed to the event: the local starts as '' and is tested
\* before anything is assigned to it
Reference(p) ==
    LET reference == "" IN
    IF reference = ""
    THEN "No reference documented"
    ELSE p.references[1]

\* mutant: the description is passed on as it is
Description_raw(p) == p.description

\* CRITs requires a description
Description(p) ==
    IF p.description = "" THEN "No description given." ELSE p.description

\* the ticket number attached to the event
TicketNumber(p) == p.id

\* mutant: the pulse is reported as already in CRITs and imported all the same
AfterSkipped_import == "event"

\* `continue` after 'Pulse was already in CRITs': back to the for loop
AfterSkipped == "next"

\* mutant: the list of the previous pulse is kept
NewRelationshipMap_kept == relationship_map

\* `relationship_map = []`
NewRelationshipMap == <<>>

\* top of the loop body: a fresh relationship_map, then the duplicate check
ExecDupCheck ==
    /\ pc = "body"
    /\ relationship_map' = NewRelationshipMap
    /\ calls' = Append(calls, Call("count", CurN, pulse.id, 0, 0, pulse.id, "",
                                   is_pulse_in_crits(pulse.id),
                                   event_count(pulse.id)))
    /\ IF is_pulse_in_crits(pulse.id)
       THEN /\ terminal' = Append(terminal, Terminal("Skipped"))
            /\ pc' = AfterSkipped
       ELSE /\ pc' = "event"
            /\ UNCHANGED terminal
    /\ UNCHANGED <<feed, runs, modified_since, budget, events, indicators, relationships, run,
                   gpc, all_pulses, idx, pulse, event_id, i, j, yielded>>

\* mutant: the failure leaves execute instead of the loop body
AfterAbandon_return == "returned"

\* `continue` after a failed event creation: back to the for loop
AfterAbandon == "next"

\* mutant: the reply is never checked for its id
EventFailed_unchecked(ok) == FALSE

\* `if 'id' not in event`: the reply of a failed creation carries no id
EventFailed(ok) == ~ok

\* build_crits_event, then `if 'id' not in event: continue`
ExecCreateEvent ==
    /\ pc = "event"
    /\ \E ok \in BOOLEAN :
        /\ MayAnswer(ok)
        /\ budget' = Charge(ok)
        /\ calls' = Append(calls, Call("event", CurN, pulse.id, 0, 0,
                                       Description(pulse), Reference(pulse), ok,
                                       IF ok THEN Len(events) + 1 ELSE 0))
        /\ events' = IF ok
                     THEN Append(events, [description |-> Description(pulse),
                                          reference |-> Reference(pulse),
                                          tickets |-> <<>>])
                     ELSE events
        /\ IF EventFailed(ok)
           THEN /\ terminal' = Append(terminal, Terminal("Abandoned"))
                /\ pc' = AfterAbandon
                /\ UNCHANGED event_id
           ELSE /\ event_id' = Len(events) + 1
                /\ pc' = "ticket"
                /\ UNCHANGED terminal
    /\ UNCHANGED <<feed, runs, modified_since, indicators, relationships, run, gpc, all_pulses,
                   idx, pulse, relationship_map, i, j, yielded>>

\* mutant: a failed ticket attach abandons the pulse
AfterTicket_fatal(success) == IF success THEN "indicators" ELSE "next"

\* `if not success: print('... Forging on after a ticket error.')`: the
\* indicator loop follows whatever add_ticket_to_crits_event returned
AfterTicket(success) == "indicators"

\* add_ticket_to_crits_event; a failure is only reported
ExecAttachTicket ==
    /\ pc = "ticket"
    /\ \E ok \in BOOLEAN :
        /\ MayAnswer(ok)
        /\ budget' = Charge(ok)
        /\ calls' = Append(calls, Call("ticket", CurN, pulse.id, event_id, 0,
                                       TicketNumber(pulse), "", ok, 0))
        /\ events' = IF ok
                     THEN [events EXCEPT ![event_id].tickets =
                                            Append(@, TicketNumber(pulse))]
                     ELSE events
        /\ pc' = AfterTicket(ok)
    /\ i' = 1
    /\ UNCHANGED <<feed, runs, modified_since, indicators, relationships, run, gpc, all_pulses,
                   idx, pulse, relationship_map, event_id, j, yielded, terminal>>

\* `if i['type'] in mapping`
Supported(t) == t \in DOMAIN get_indicator_mapping

\* `_type = mapping[i['type']]`
MappedType(t) == get_indicator_mapping[t]

\* an indicator-creation call is issued for the record
Attempted(rec) == Supported(rec.type) /\ MappedType(rec.type) # None

\* what pycrits.add_indicator can answer: a result with return_code 0, a
\* result with another return_code, or nothing
IndicatorAnswers == {"rc0", "rc1", "falsy"}

\* mutant: any result that is not empty counts, whatever its return_code
IndicatorCreated_anycode(answer) == answer # "falsy"

\* add_crits_indicator returns the result only when its return_code is 0
IndicatorCreated(answer) == answer = "rc0"

\* mutant: the loop is left after the first record
IndicatorsExhausted_early == i > 1 \/ i > Len(pulse.indicators)

\* `for i in indicator_data` has gone through every record
IndicatorsExhausted == i > Len(pulse.indicators)

\* one round of `for i in indicator_data`
ExecIndicator ==
    /\ pc = "indicators"
    /\ ~IndicatorsExhausted
    /\ LET rec == pulse.indicators[i] IN
       IF Attempted(rec)
       THEN \E answer \in IndicatorAnswers :
              LET ok == IndicatorCreated(answer)
                  id == Len(indicators) + 1 IN
              /\ MayAnswer(answer = "rc0")
              /\ budget' = Charge(answer = "rc0")
              /\ calls' = Append(calls, Call("indicator", CurN, pulse.id, 0, i,
                                             MappedType(rec.type), rec.type,
                                             ok, IF answer = "rc0" THEN id ELSE 0))
              /\ indicators' = IF answer = "rc0"
                               THEN Append(indicators,
                                           [type |-> MappedType(rec.type),
                                            value |-> rec.indicator])
                               ELSE indicators
              /\ relationship_map' = IF ok
                                     THEN Append(relationship_map, id)
                                     ELSE relationship_map
       ELSE UNCHANGED <<budget, calls, indicators, relationship_map>>
    /\ i' = i + 1
    /\ UNCHANGED <<feed, runs, modified_since, events, relationships, run, pc, gpc, all_pulses,
                   idx, pulse, event_id, j, yielded, terminal>>

\* indicator_data is exhausted: 'Building relationships.'
ExecIndicatorsEnd ==
    /\ pc = "indicators"
    /\ IndicatorsExhausted
    /\ j' = 1
    /\ pc' = "relationships"
    /\ UNCHANGED <<feed, runs, modified_since, budget, events, indicators, relationships, run,
                   gpc, all_pulses, idx, pulse, relationship_map, event_id, i,
                   calls, yielded, terminal>>

\* mutant: a failed relationship call ends the loop
RelationshipsExhausted_onerror ==
    \/ j > Len(relationship_map)
    \/ /\ j > 1
       /\ calls[Len(calls)].op = "relationship"
       /\ ~calls[Len(calls)].ok

\* `for _id in relationship_map` has gone through every id
RelationshipsExhausted == j > Len(relationship_map)

\* one round of `for _id in relationship_map`: build_crits_relationship
ExecRelationship ==
    /\ pc = "relationships"
    /\ ~RelationshipsExhausted
    /\ \E ok \in BOOLEAN :
        /\ MayAnswer(ok)
        /\ budget' = Charge(ok)
        /\ calls' = Append(calls, Call("relationship", CurN, pulse.id, event_id,
                                       relationship_map[j], "", "", ok, 0))
        /\ relationships' = IF ok
                            THEN relationships \cup {<<event_id, relationship_map[j]>>}
                            ELSE relationships
    /\ j' = j + 1
    /\ UNCHANGED <<feed, runs, modified_since, events, indicators, run, pc, gpc, all_pulses,
                   idx, pulse, relationship_map, event_id, i, yielded, terminal>>

\* relationship_map is exhausted: the loop body ends
ExecPulseDone ==
    /\ pc = "relationships"
    /\ RelationshipsExhausted
    /\ terminal' = Append(terminal, Terminal("Done"))
    /\ pc' = "next"
    /\ UNCHANGED <<feed, runs, modified_since, budget, events, indicators, relationships, run,
                   gpc, all_pulses, idx, pulse, relationship_map, event_id, i,
                   j, calls, yielded>>

\* main() is invoked again: a new OTX2CRITs, a new generator, the same
\* feed and the same repository
Rerun ==
    /\ pc = "returned"
    /\ run < runs
    /\ run' = run + 1
    /\ pc' = "next"
    /\ gpc' = "start"
    /\ all_pulses' = EmptyPage
    /\ idx' = 1
    /\ pulse' = NoPulse
    /\ relationship_map' = <<>>
    /\ event_id' = 0
    /\ i' = 1
    /\ j' = 1
    /\ UNCHANGED <<feed, runs, modified_since, budget, events, indicators, relationships,
                   calls, yielded, terminal>>

(* --------------------------- the specifications ------------------------ *)
InitWith(F, R, B, E, M) ==
    /\ feed \in F
    /\ runs = R
    /\ modified_since \in M
    /\ budget = B
    /\ events \in E
    /\ indicators = <<>>
    /\ relationships = {}
    /\ run = 1
    /\ pc = "next"
    /\ gpc = "start"
    /\ all_pulses = EmptyPage
    /\ idx = 1
    /\ pulse = NoPulse
    /\ relationship_map = <<>>
    /\ event_id = 0
    /\ i = 1
    /\ j = 1
    /\ calls = <<>>
    /\ yielded = <<>>
    /\ terminal = <<>>

\* main() invoked twice over the same feed of up to MaxPages pages, against
\* a repository that starts empty
Init == InitWith(Feeds(FeedPulses), 2, MaxFailures, {<<>>}, {NoTime})

Next ==
    \/ GenStart
    \/ GenYield
    \/ GenFollow
    \/ ExecDupCheck
    \/ ExecCreateEvent
    \/ ExecAttachTicket
    \/ ExecIndicator
    \/ ExecIndicatorsEnd
    \/ ExecRelationship
    \/ ExecPulseDone
    \/ Rerun

Spec == Init /\ [][Next]_vars


(* --------------------- one run of execute over one pulse --------------- *)
\* the indicator types of the single-pulse inputs: mapped, mapped to None,
\* absent from the table
SomeTypes == {"IPv4", "Yara", "url"}

\* pulses with every shape of description, references and indicator list
RichPulses ==
    { Pulse("p1", d, refs, inds) :
        d \in {"", "d1"},
        refs \in {<<>>, <<"r1">>, <<"r1", "r2">>},
        inds \in SeqsUpTo({ Indicator(t, "v") : t \in SomeTypes }, MaxInd) }

\* pulses with one indicator record, of every type string of the table and
\* of some that are absent from it
TypePulses ==
    { Pulse("p1", "d1", <<>>, <<Indicator(t, "v")>>) :
        t \in DOMAIN get_indicator_mapping \cup AbsentTypes }

\* the feed with one page, holding pulse p
OnePulseFeed(p) ==
    [u \in 1..MaxPages |->
        IF u = FirstUrl
        THEN [has_results |-> TRUE, results |-> <<p>>,
              has_next |-> TRUE, next |-> 0]
        ELSE EmptyPage]

InitPulse ==
    InitWith({ OnePulseFeed(p) : p \in RichPulses \cup TypePulses }, 1,
             MaxFailures, {<<>>, <<OldEvent("p1")>>}, {NoTime})

\* one invocation of main()
NextOnce ==
    \/ GenStart
    \/ GenYield
    \/ GenFollow
    \/ ExecDupCheck
    \/ ExecCreateEvent
    \/ ExecAttachTicket
    \/ ExecIndicator
    \/ ExecIndicatorsEnd
    \/ ExecRelationship
    \/ ExecPulseDone

SpecPulse == InitPulse /\ [][NextOnce]_vars

(* --------------------------- one run of execute ------------------------ *)
\* main() invoked once over a feed of up to MaxPages pages, against a
\* repository that starts empty
InitOnce == InitWith(Feeds(FeedPulses), 1, MaxFailures, {<<>>}, {NoTime})

SpecOnce == InitOnce /\ [][NextOnce]_vars

\* main() invoked once, with and without a number of days
InitSince ==
    InitWith(Feeds(FeedPulses), 1, MaxFailures, {<<>>}, {NoTime, SomeTime})

SpecSince == InitSince /\ [][NextOnce]_vars

\* the run is sequential and every remote call returns: whenever execute or
\* the generator can take its next step, it does
FairSpec == InitOnce /\ [][NextOnce]_vars /\ WF_vars(NextOnce)

(* =============================== claims =============================== *)
IsPrefix(s, t) ==
    /\ Len(s) <= Len(t)
    /\ \A k \in 1..Len(s) : s[k] = t[k]

\* the calls issued for the pulse with ordinal n, in the order issued
CallsFor(n) == SelectSeq(calls, LAMBDA c : c.n = n)

\* the calls of one kind issued for the pulse with ordinal n
CallsOf(op, n) == SelectSeq(calls, LAMBDA c : c.op = op /\ c.n = n)

\* the feed's answers in run r: the URL requested and whether it answered 200
FeedAnswers(r) ==
    LET reqs == SelectSeq(calls, LAMBDA c : c.op = "feed" /\ c.run = r)
    IN  [k \in 1..Len(reqs) |-> <<reqs[k].k, reqs[k].ok>>]

\* every event creation and every ticket attach of the first run succeeded
FirstRunRecorded ==
    \A k \in 1..Len(calls) :
        calls[k].run = 1 /\ calls[k].op \in {"event", "ticket"} => calls[k].ok

\* the feed answers the second run as it answered the first
SameFeed == IsPrefix(FeedAnswers(2), FeedAnswers(1))

\* C1: idempotence across runs.  When every event creation and every ticket
\* attach of the first run succeeded and the feed answers the second run as
\* it answered the first, the second run issues no call but feed requests
\* and duplicate checks, every duplicate check answers true, and every
\* pulse of the second run ends Skipped.
C1_Idempotent ==
    (run = 2 /\ FirstRunRecorded /\ SameFeed) =>
        /\ \A k \in 1..Len(calls) :
            calls[k].run = 2 =>
                /\ calls[k].op \in {"feed", "count"}
                /\ calls[k].op = "count" => calls[k].ok
        /\ \A k \in 1..Len(terminal) :
            terminal[k].run = 2 => terminal[k].state = "Skipped"

\* C1 witness: the second run has ended after skipping two pulses that the
\* first run imported, one of them with a failed indicator creation
C1_Witness ==
    /\ run = 2 /\ pc = "returned"
    /\ FirstRunRecorded /\ SameFeed
    /\ Cardinality({ k \in 1..Len(terminal) :
                        terminal[k].run = 2 /\ terminal[k].state = "Skipped" }) = 2
    /\ \E k \in 1..Len(calls) :
        calls[k].run = 1 /\ calls[k].op = "indicator" /\ ~calls[k].ok
    /\ \E k \in 1..Len(calls) :
        calls[k].run = 1 /\ calls[k].op = "event" /\ calls[k].ok

\* the pulse with ordinal n has left the duplicate check behind
PastDupCheck(n) == n < CurN \/ pc # "body"

\* C2: a pulse whose event creation failed gets no further call (no ticket,
\* indicator or relationship call), it ends Abandoned, and the pulse the feed
\* yields next in the same run is duplicate-checked: the first call issued
\* for it is the repository's count query.
C2_AbandonedPulse ==
    \A k \in 1..Len(calls) :
        (calls[k].op = "event" /\ ~calls[k].ok) =>
            LET n == calls[k].n IN
            /\ \A m \in (k + 1)..Len(calls) : calls[m].n # n
            /\ \A m \in 1..Len(calls) :
                calls[m].n = n => calls[m].op \in {"count", "event"}
            /\ n <= Len(terminal) /\ terminal[n].state = "Abandoned"
            /\ (n < Len(yielded) /\ yielded[n + 1].run = calls[k].run
                    /\ PastDupCheck(n + 1)) =>
                    /\ Len(CallsFor(n + 1)) > 0
                    /\ CallsFor(n + 1)[1].op = "count"

\* C2 witness: the event creation of the first pulse failed, and the second
\* pulse of the same run was then imported to the end
C2_Witness ==
    /\ Len(terminal) >= 2
    /\ terminal[1].state = "Abandoned" /\ terminal[2].state = "Done"
    /\ terminal[1].run = terminal[2].run
    /\ \E k \in 1..Len(calls) :
        calls[k].op = "event" /\ ~calls[k].ok /\ calls[k].n = 1
    /\ \E k \in 1..Len(calls) : calls[k].op = "relationship" /\ calls[k].n = 2

\* a type that is absent from the mapping table or mapped to None
NoCallType(t) ==
    \/ t \notin DOMAIN get_indicator_mapping
    \/ get_indicator_mapping[t] = None

\* the positions of the records of p an indicator creation is due for
DuePositions(p) ==
    SelectSeq([k \in 1..Len(p.indicators) |-> k],
              LAMBDA k : ~NoCallType(p.indicators[k].type))

\* C3: when the indicator loop of a pulse has ended, with N records of which
\* M have a type absent from the table or mapped to None, exactly N-M
\* indicator-creation calls were issued, one for each of the other records
\* in the order of the records, and relationship_map holds exactly the ids
\* returned by the calls that answered return_code 0, in that order.
C3_IndicatorCalls ==
    pc = "relationships" =>
        LET N == Len(pulse.indicators)
            M == Cardinality({ k \in 1..N : NoCallType(pulse.indicators[k].type) })
            due == DuePositions(pulse)
            ic == CallsOf("indicator", CurN)
            created == SelectSeq(ic, LAMBDA c : c.ret # 0)
        IN  /\ Len(ic) = N - M
            /\ \A m \in 1..Len(ic) :
                /\ ic[m].k = due[m]
                /\ ic[m].b = pulse.indicators[due[m]].type
            /\ relationship_map = [m \in 1..Len(created) |-> created[m].ret]

\* C3 witness: two records, one of a type mapped to None; the one call
\* issued succeeded and its id is the relationship map
C3_Witness ==
    /\ pc = "relationships"
    /\ Len(pulse.indicators) = 2
    /\ Cardinality({ k \in 1..2 : NoCallType(pulse.indicators[k].type) }) = 1
    /\ Len(CallsOf("indicator", CurN)) = 1
    /\ Len(relationship_map) = 1
    /\ relationship_map[1] = CallsOf("indicator", CurN)[1].ret

TerminalStates == {"Skipped", "Abandoned", "Done"}

\* the pulses reach their terminal states one by one, in the order yielded,
\* each after its duplicate check; execute returns only when the generator
\* is exhausted and every pulse yielded has reached a terminal state
TerminalOrder ==
    /\ Len(terminal) <= Len(yielded)
    /\ Len(yielded) <= Len(terminal) + 1
    /\ \A k \in 1..Len(terminal) :
        /\ terminal[k].n = k
        /\ terminal[k].run = yielded[k].run
        /\ terminal[k].pid = yielded[k].pulse.id
        /\ terminal[k].state \in TerminalStates
        /\ Len(CallsOf("count", k)) = 1
    /\ pc = "returned" => gpc = "done" /\ Len(terminal) = Len(yielded)

\* C4: one pulse's failure never stops the run.  Whatever calls fail, every
\* pulse the generator yields is duplicate-checked and reaches Skipped,
\* Abandoned or Done, in the order yielded, and the run goes on until the
\* generator is exhausted: execute eventually returns, and when it has, every
\* pulse yielded is in a terminal state.
C4_NeverStops ==
    /\ []TerminalOrder
    /\ <>[](pc = "returned" /\ gpc = "done" /\ Len(terminal) = Len(yielded))

\* C4 witness: the run has ended with two pulses in terminal states, the
\* first Abandoned, after failures of two kinds of call
C4_Witness ==
    /\ pc = "returned"
    /\ Len(terminal) = 2 /\ Len(yielded) = 2
    /\ terminal[1].state = "Abandoned"
    /\ \E k \in 1..Len(calls) : calls[k].op = "ticket" /\ ~calls[k].ok

PulseIds == {"p1", "p2"}

\* the event creations of run r for pulse identifier pid that succeeded
EventsCreated(r, pid) ==
    Cardinality({ k \in 1..Len(calls) :
                    /\ calls[k].op = "event" /\ calls[k].ok
                    /\ calls[k].run = r /\ calls[k].pid = pid })

\* the ticket attaches of run r for pulse identifier pid that failed
TicketsFailed(r, pid) ==
    Cardinality({ k \in 1..Len(calls) :
                    /\ calls[k].op = "ticket" /\ ~calls[k].ok
                    /\ calls[k].run = r /\ calls[k].pid = pid })

\* C5 as stated: within one run at most one event creation succeeds for a
\* pulse identifier, also for one the feed yields more than once.
C5_AtMostOnce ==
    \A r \in 1..2 : \A pid \in PulseIds : EventsCreated(r, pid) <= 1

\* C5 amended: within one run the successful event creations for a pulse
\* identifier are at most one more than the failed ticket attaches for it,
\* and once a ticket attach for the identifier has succeeded no event
\* creation is issued for it any more.
C5_AtMostOncePerTicket ==
    /\ \A r \in 1..2 : \A pid \in PulseIds :
        EventsCreated(r, pid) <= 1 + TicketsFailed(r, pid)
    /\ \A k \in 1..Len(calls) :
        (calls[k].op = "ticket" /\ calls[k].ok) =>
            \A m \in (k + 1)..Len(calls) :
                ~(calls[m].op = "event" /\ calls[m].pid = calls[k].pid)

\* C5 witness: the feed yielded p1 twice in the first run; its Event was
\* created and ticketed the first time and the second time it was skipped
C5_Witness ==
    /\ Len(terminal) >= 2
    /\ terminal[1].run = 1 /\ terminal[2].run = 1
    /\ terminal[1].pid = "p1" /\ terminal[2].pid = "p1"
    /\ terminal[1].state = "Done" /\ terminal[2].state = "Skipped"
    /\ EventsCreated(1, "p1") = 1
    /\ TicketsFailed(1, "p1") = 0

RECURSIVE ChainResults(_, _)
\* the concatenation of the 'results' arrays of the pages the 'next' links
\* lead through, from URL u on
ChainResults(f, u) ==
    LET here == IF f[u].has_results THEN f[u].results ELSE <<>> IN
    IF f[u].has_next /\ f[u].next # 0
    THEN here \o ChainResults(f, f[u].next)
    ELSE here

\* the pulses yielded in run r, in the order yielded
YieldedIn(r) ==
    LET ys == SelectSeq(yielded, LAMBDA y : y.run = r)
    IN  [k \in 1..Len(ys) |-> ys[k].pulse]

\* every feed request of run r so far was answered with status 200
FeedAllOk(r) ==
    \A k \in 1..Len(calls) :
        calls[k].op = "feed" /\ calls[k].run = r => calls[k].ok

\* the generator of run r is exhausted
GeneratorDone(r) == r < run \/ gpc = "done"

\* while every page answers 200, what the generator has yielded is a prefix
\* of the concatenation of the pages' results in page order; when it is
\* exhausted it has yielded all of it, with one request per page of the
\* chain, in chain order
PagesInOrder ==
    FeedAllOk(run) =>
        /\ IsPrefix(YieldedIn(run), ChainResults(feed, FirstUrl))
        /\ GeneratorDone(run) =>
            /\ YieldedIn(run) = ChainResults(feed, FirstUrl)
            /\ FeedAnswers(run) =
                 [k \in 1..Len(Chain(feed, FirstUrl)) |->
                    <<Chain(feed, FirstUrl)[k], TRUE>>]

\* C6: pagination.  Over a finite chain of pages that all answer 200, the
\* last with 'next' absent or null, the generator yields exactly the
\* concatenation of the pages' results in page order, each pulse once, and
\* then terminates.
C6_Pagination ==
    /\ []PagesInOrder
    /\ <>(gpc = "done")

\* C6 witness: the generator is exhausted after two pages that answered 200,
\* each holding one pulse, the two pulses distinct
C6_Witness ==
    /\ gpc = "done"
    /\ FeedAllOk(1)
    /\ Len(Chain(feed, FirstUrl)) = 2
    /\ Len(feed[1].results) = 1 /\ Len(feed[2].results) = 1
    /\ feed[1].results # feed[2].results
    /\ Len(YieldedIn(1)) = 2

\* C7 as stated: the reference passed to event creation is the pulse's first
\* reference URL when the pulse has references, and the placeholder only
\* when it has none.
C7_FirstReference ==
    \A k \in 1..Len(calls) :
        calls[k].op = "event" =>
            LET refs == yielded[calls[k].n].pulse.references IN
            calls[k].b = IF Len(refs) > 0 THEN refs[1]
                         ELSE "No reference documented"

\* C8: the description passed to event creation is the placeholder when the
\* pulse's description is the empty string and the pulse's own description
\* otherwise; it is never empty.
C8_Description ==
    \A k \in 1..Len(calls) :
        calls[k].op = "event" =>
            LET d == yielded[calls[k].n].pulse.description IN
            /\ calls[k].a = IF d = "" THEN "No description given." ELSE d
            /\ calls[k].a # ""
            /\ calls[k].ok => events[calls[k].ret].description = calls[k].a

\* C8 witness: an Event was created for a pulse with an empty description
C8_Witness ==
    \E k \in 1..Len(calls) :
        /\ calls[k].op = "event" /\ calls[k].ok
        /\ yielded[calls[k].n].pulse.description = ""
        /\ calls[k].a = "No description given."

\* the feed type strings of the table
TableTypes ==
    {"FileHash-SHA256", "FileHash-SHA1", "URI", "URL", "hostname", "domain",
     "IPv4", "IPv6", "email", "Email", "filepath", "Filepath", "FilePath",
     "FileHash-MD5", "Imphash", "PEhash", "CIDR", "mutex", "Mutex", "CVE",
     "Yara"}

\* the types with no equivalent in the repository
NoEquivalent == {"PEhash", "CVE", "Yara"}

\* the repository's indicator types the table uses
ConcreteTypes ==
    {"it.SHA256", "it.SHA1", "it.URI", "it.DOMAIN", "it.IPV4_ADDRESS",
     "it.IPV6_ADDRESS", "it.EMAIL_ADDRESS", "it.FILE_PATH", "it.MD5",
     "it.IMPHASH", "it.IPV4_SUBNET", "it.MUTEX"}

SynonymGroups ==
    { {"URI", "URL"}, {"hostname", "domain"}, {"email", "Email"},
      {"filepath", "Filepath", "FilePath"}, {"mutex", "Mutex"} }

\* the indicator-creation calls issued for record k of the current pulse
CallsForRecord(k) ==
    SelectSeq(CallsOf("indicator", CurN), LAMBDA c : c.k = k)

\* C9: indicator type mapping.  For every record the indicator loop has gone
\* through: a type of the table gives one creation call with a concrete
\* repository type, or no call when it is one of PEhash, CVE, Yara, which
\* the table maps to None; a type absent from the table gives no call; and a
\* type with synonyms gives a call whose repository type is the one the
\* table holds for each of its synonyms.
C9_TypeMapping ==
    pc \in {"indicators", "relationships"} =>
        \A k \in 1..(i - 1) :
            LET t == pulse.indicators[k].type
                cs == CallsForRecord(k)
            IN  /\ (t \in TableTypes \ NoEquivalent) =>
                    /\ Len(cs) = 1
                    /\ cs[1].a \in ConcreteTypes
                /\ t \in NoEquivalent =>
                    /\ Len(cs) = 0
                    /\ t \in DOMAIN get_indicator_mapping
                    /\ get_indicator_mapping[t] = None
                /\ t \notin TableTypes =>
                    /\ Len(cs) = 0
                    /\ t \notin DOMAIN get_indicator_mapping
                /\ \A G \in SynonymGroups :
                    t \in G =>
                        /\ Len(cs) = 1
                        /\ \A t2 \in G :
                            /\ t2 \in DOMAIN get_indicator_mapping
                            /\ get_indicator_mapping[t2] = cs[1].a

\* C9 witness: the loop has gone through a record of type 'Email', a case
\* variant, and the call was issued with the type of 'email'
C9_Witness ==
    /\ pc = "relationships"
    /\ Len(pulse.indicators) = 1
    /\ pulse.indicators[1].type = "Email"
    /\ Len(CallsForRecord(1)) = 1
    /\ CallsForRecord(1)[1].a = "it.EMAIL_ADDRESS"

\* the place of a call in the write sequence of one pulse
Rank(op) ==
    CASE op = "count" -> 0
      [] op = "event" -> 1
      [] op = "ticket" -> 2
      [] op = "indicator" -> 3
      [] op = "relationship" -> 4
      [] OTHER -> 5

\* C10: write ordering within one pulse.  The calls for a pulse are issued
\* in the order duplicate check, event creation, ticket attach, indicator
\* creations, relationships, the first three once each; a ticket attach
\* follows a successful event creation, an indicator creation follows the
\* ticket attach, and a relationship call is issued only after a creation
\* call was issued for every record due one; the calls for one pulse are all
\* issued before the calls for the next.
C10_WriteOrder ==
    /\ \A n \in 1..Len(yielded) :
        LET cs == CallsFor(n) IN
        /\ \A a \in 1..Len(cs) : \A b \in (a + 1)..Len(cs) :
            /\ Rank(cs[a].op) <= Rank(cs[b].op)
            /\ Rank(cs[a].op) <= 2 => Rank(cs[a].op) < Rank(cs[b].op)
        /\ \A b \in 1..Len(cs) :
            /\ cs[b].op = "ticket" =>
                \E a \in 1..(b - 1) : cs[a].op = "event" /\ cs[a].ok
            /\ cs[b].op = "indicator" =>
                \E a \in 1..(b - 1) : cs[a].op = "ticket"
            /\ cs[b].op = "relationship" =>
                Len(CallsOf("indicator", n)) = Len(DuePositions(yielded[n].pulse))
    /\ \A k \in 1..Len(calls) : \A m \in (k + 1)..Len(calls) :
        (calls[k].op # "feed" /\ calls[m].op # "feed") => calls[k].n <= calls[m].n

\* C10 witness: a pulse with two records due a creation call; both calls
\* and a relationship call were issued after the ticket attach
C10_Witness ==
    /\ Len(yielded) = 1
    /\ Len(DuePositions(yielded[1].pulse)) = 2
    /\ Len(CallsOf("indicator", 1)) = 2
    /\ Len(CallsOf("ticket", 1)) = 1
    /\ Len(CallsOf("relationship", 1)) >= 1

\* C11: a failed ticket attach is not fatal.  For every pulse whose ticket
\* attach failed, execute goes on with the indicator loop of that pulse;
\* when the pulse has ended it is Done, one indicator-creation call was
\* issued for each record due one, in the order of the records, and one
\* relationship call for each indicator created, in the order created:
\* the same calls as for a pulse whose ticket attach succeeded.
C11_TicketNonFatal ==
    \A k \in 1..Len(calls) :
        calls[k].op = "ticket" =>
            LET n == calls[k].n
                p == yielded[n].pulse
                due == DuePositions(p)
                ic == CallsOf("indicator", n)
                rc == CallsOf("relationship", n)
                created == SelectSeq(ic, LAMBDA c : c.ret # 0)
            IN  /\ n > Len(terminal) =>
                    /\ n = CurN
                    /\ pc \in {"indicators", "relationships"}
                /\ n <= Len(terminal) =>
                    /\ terminal[n].state = "Done"
                    /\ Len(ic) = Len(due)
                    /\ \A m \in 1..Len(ic) : ic[m].k = due[m]
                    /\ Len(rc) = Len(created)
                    /\ \A m \in 1..Len(rc) :
                        /\ rc[m].k = created[m].ret
                        /\ rc[m].eid = calls[k].eid

\* C11 witness: the ticket attach of a pulse with two mapped records
\* failed; both indicator calls and then both relationship calls were
\* issued and the pulse ended Done
C11_Witness ==
    /\ Len(terminal) = 1 /\ terminal[1].state = "Done"
    /\ Len(CallsOf("ticket", 1)) = 1
    /\ ~CallsOf("ticket", 1)[1].ok
    /\ Len(DuePositions(yielded[1].pulse)) = 2
    /\ Len(CallsOf("indicator", 1)) = 2
    /\ Len(CallsOf("relationship", 1)) = 2

\* a ticket attach with ticket number pid succeeded among the first m calls
TicketAttached(pid, m) ==
    \E k \in 1..m :
        calls[k].op = "ticket" /\ calls[k].ok /\ calls[k].a = pid

\* an Event was created for pulse identifier pid among the first m calls
EventCreated(pid, m) ==
    \E k \in 1..m :
        calls[k].op = "event" /\ calls[k].ok /\ calls[k].pid = pid

\* C12: duplicate detection tracks ticket attachment.  From a repository
\* that starts without tickets, at every point is_pulse_in_crits(p) is true
\* exactly when a ticket attach with ticket number p has succeeded, and so
\* is every answer the duplicate check got; a pulse whose Event was created
\* while no ticket attach for it succeeded is not detected when it is seen
\* again, and a second event creation is issued for it.
C12_TracksTickets ==
    /\ \A pid \in PulseIds :
        is_pulse_in_crits(pid) <=> TicketAttached(pid, Len(calls))
    /\ \A m \in 1..Len(calls) :
        calls[m].op = "count" =>
            /\ calls[m].ok <=> TicketAttached(calls[m].a, m - 1)
            /\ (EventCreated(calls[m].a, m - 1)
                    /\ ~TicketAttached(calls[m].a, m - 1)) =>
                /\ ~calls[m].ok
                /\ (calls[m].n < CurN \/ pc # "event") =>
                    Len(CallsOf("event", calls[m].n)) = 1

\* C12 witness: the Event of p1 was created and its ticket attach failed;
\* p1 was yielded again, was not detected, and a second Event was created
C12_Witness ==
    /\ Len(yielded) = 2
    /\ yielded[1].pulse.id = "p1" /\ yielded[2].pulse.id = "p1"
    /\ Len(CallsOf("ticket", 1)) = 1 /\ ~CallsOf("ticket", 1)[1].ok
    /\ Len(CallsOf("count", 2)) = 1 /\ ~CallsOf("count", 2)[1].ok
    /\ Len(CallsOf("event", 2)) = 1 /\ CallsOf("event", 2)[1].ok
    /\ Len(events) = 2
    /\ ~is_pulse_in_crits("p1")

\* the indicator-creation calls for the pulse with ordinal n that created
\* an indicator
CreatedFor(n) == SelectSeq(CallsOf("indicator", n), LAMBDA c : c.ret # 0)

\* C13: relationships are created only for indicators that were created.
\* Every relationship call for a pulse targets the id of the Event created
\* for that pulse and the id of an indicator created for it, each id at most
\* once and in the order created; when the pulse is Done there is one
\* relationship call for each indicator created, whichever of the calls
\* failed, and the repository holds the relationships of the calls that
\* succeeded and no other.
C13_Relationships ==
    /\ \A n \in 1..Len(yielded) :
        LET rc == CallsOf("relationship", n)
            created == CreatedFor(n)
            ev == CallsOf("event", n)
        IN  /\ Len(rc) <= Len(created)
            /\ \A m \in 1..Len(rc) :
                /\ rc[m].k = created[m].ret
                /\ Len(ev) = 1 /\ ev[1].ok
                /\ rc[m].eid = ev[1].ret
            /\ (n <= Len(terminal) /\ terminal[n].state = "Done") =>
                Len(rc) = Len(created)
    /\ relationships =
         { <<calls[k].eid, calls[k].k>> :
             k \in { m \in 1..Len(calls) :
                       calls[m].op = "relationship" /\ calls[m].ok } }

\* C13 witness: two indicators were created for a pulse; the first
\* relationship call failed, the second was issued and succeeded
C13_Witness ==
    /\ Len(terminal) = 1 /\ terminal[1].state = "Done"
    /\ Len(CreatedFor(1)) = 2
    /\ Len(CallsOf("relationship", 1)) = 2
    /\ ~CallsOf("relationship", 1)[1].ok
    /\ CallsOf("relationship", 1)[2].ok
    /\ Cardinality(relationships) = 1

\* the calls of run r that are no feed requests
RepositoryCalls(r) ==
    SelectSeq(calls, LAMBDA c : c.run = r /\ c.op # "feed")

\* C14: a feed failure halts the sequence, without retry.  After a feed
\* request answered with a status other than 200 the run issues no further
\* call, the generator is exhausted and yields no further pulse: every
\* pulse yielded in the run was duplicate-checked before the failed
\* request, and every one of them is in a terminal state.  When the failed
\* request is the first of the run, no pulse is yielded and no repository
\* call is made in the run.
C14_FeedFailureHalts ==
    \A k \in 1..Len(calls) :
        (calls[k].op = "feed" /\ ~calls[k].ok) =>
            LET r == calls[k].run
                first == \A m \in 1..(k - 1) : calls[m].run # r
                checked == { m \in 1..(k - 1) :
                               calls[m].run = r /\ calls[m].op = "count" }
            IN  /\ \A m \in (k + 1)..Len(calls) : calls[m].run # r
                /\ r = run => gpc = "done" /\ pc = "returned"
                /\ Len(YieldedIn(r)) = Cardinality(checked)
                /\ \A n \in 1..Len(yielded) :
                    yielded[n].run = r =>
                        /\ n <= Len(terminal)
                        /\ terminal[n].state \in TerminalStates
                /\ first =>
                    /\ YieldedIn(r) = <<>>
                    /\ RepositoryCalls(r) = <<>>

\* C14 witness: the first page answered 200 and its pulse was imported to
\* the end; the request for the second page failed, and the run returned
\* without the pulse of the second page
C14_Witness ==
    /\ pc = "returned" /\ gpc = "done"
    /\ FeedAnswers(1) = <<(<<1, TRUE>>), (<<2, FALSE>>)>>
    /\ Len(feed[2].results) > 0
    /\ Len(yielded) = 1 /\ Len(terminal) = 1
    /\ terminal[1].state = "Done"

\* the only call issued for a pulse the duplicate check found is the check
\* itself, and the pulse is Skipped
SkippedUntouched ==
    \A k \in 1..Len(calls) :
        (calls[k].op = "count" /\ calls[k].ok) =>
            LET n == calls[k].n IN
            /\ CallsFor(n) = <<calls[k]>>
            /\ n <= Len(terminal)
            /\ terminal[n].state = "Skipped"

\* the step that checks a pulse already in the repository writes nothing
\* and goes back to the for loop
SkipWritesNothing ==
    (pc = "body" /\ is_pulse_in_crits(pulse.id)) =>
        /\ UNCHANGED <<events, indicators, relationships>>
        /\ pc' = "next"

\* C15: a pulse detected as already imported leaves the repository
\* unchanged.  When the duplicate check answers true for a pulse, no event,
\* ticket, indicator or relationship call is issued for it and nothing is
\* written, also when the earlier import attached the ticket and created no
\* indicator: a later run does not complete it.
C15_SkippedUnchanged ==
    /\ []SkippedUntouched
    /\ [][SkipWritesNothing]_vars

\* C15 witness: the first run attached the ticket of p1 and its only
\* indicator creation failed; the second run has ended, it skipped p1 and
\* the repository still holds no indicator and no relationship
C15_Witness ==
    /\ run = 2 /\ pc = "returned"
    /\ indicators = <<>> /\ relationships = {}
    /\ \E n \in 1..Len(terminal) :
        /\ terminal[n].run = 1 /\ terminal[n].pid = "p1"
        /\ terminal[n].state = "Done"
        /\ CallsOf("ticket", n)[1].ok
        /\ Len(CallsOf("indicator", n)) = 1
        /\ CreatedFor(n) = <<>>
    /\ \E n \in 1..Len(terminal) :
        /\ terminal[n].run = 2 /\ terminal[n].pid = "p1"
        /\ terminal[n].state = "Skipped"

\* the indicator-creation calls that returned the indicator id
CreationsOf(id) ==
    { m \in 1..Len(calls) : calls[m].op = "indicator" /\ calls[m].ret = id }

\* C16: the relationship map is per pulse.  It is empty when the processing
\* of a pulse starts and until its indicator loop starts; while the pulse is
\* processed it holds only ids of indicators created for that pulse; and
\* every relationship call links the Event of its pulse to an indicator
\* created earlier for that same pulse, never to one created for another
\* pulse of the run.
C16_MapPerPulse ==
    /\ pc \in {"event", "ticket"} => relationship_map = <<>>
    /\ pc \in {"event", "ticket", "indicators", "relationships"} =>
        \A m \in 1..Len(relationship_map) :
            /\ CreationsOf(relationship_map[m]) # {}
            /\ \A c \in CreationsOf(relationship_map[m]) : calls[c].n = CurN
    /\ \A k \in 1..Len(calls) :
        calls[k].op = "relationship" =>
            /\ \E c \in CreationsOf(calls[k].k) : c < k
            /\ \A c \in CreationsOf(calls[k].k) : calls[c].n = calls[k].n
            /\ \A c \in 1..Len(calls) :
                (calls[c].op = "event" /\ calls[c].ret = calls[k].eid) =>
                    calls[c].n = calls[k].n

\* C16 witness: two pulses of one run are Done, an indicator was created
\* for each, and each has the one relationship call for its own indicator
C16_Witness ==
    /\ Len(terminal) = 2
    /\ terminal[1].state = "Done" /\ terminal[2].state = "Done"
    /\ Len(CreatedFor(1)) = 1 /\ Len(CreatedFor(2)) = 1
    /\ Len(CallsOf("relationship", 1)) = 1
    /\ Len(CallsOf("relationship", 2)) = 1
    /\ CallsOf("relationship", 1)[1].k # CallsOf("relationship", 2)[1].k

\* the feed requests of run r, in the order issued
FeedRequests(r) == SelectSeq(calls, LAMBDA c : c.op = "feed" /\ c.run = r)

\* C17: the pagination protocol.  The first feed request of a run is the
\* one the client builds: the subscribed-pulses URL with limit=10, page=1
\* and, exactly when an age limit is given, modified_since.  Every later
\* request follows a response with status 200 whose 'next' is present and
\* not null, goes to exactly that 'next' URL and carries nothing the client
\* built.  No page is requested twice and none of the chain is skipped.
C17_Pagination ==
    LET reqs == FeedRequests(run)
        chain == Chain(feed, FirstUrl)
    IN  /\ Len(reqs) >= 1 =>
            /\ reqs[1].k = FirstUrl
            /\ reqs[1].a =
                 IF modified_since = NoTime
                 THEN "?limit=10&page=1"
                 ELSE "?modified_since=2016-11-01 12:00:00.000123&limit=10&page=1"
        /\ \A m \in 2..Len(reqs) :
            /\ reqs[m - 1].ok
            /\ feed[reqs[m - 1].k].has_next
            /\ feed[reqs[m - 1].k].next # 0
            /\ reqs[m].k = feed[reqs[m - 1].k].next
            /\ reqs[m].a = ""
        /\ \A m \in 1..Len(reqs) : \A m2 \in (m + 1)..Len(reqs) :
            reqs[m].k # reqs[m2].k
        /\ Len(reqs) <= Len(chain)
        /\ \A m \in 1..Len(reqs) : reqs[m].k = chain[m]
        /\ (gpc = "done" /\ FeedAllOk(run)) => Len(reqs) = Len(chain)

\* C17 witness: with an age limit given, the generator is exhausted after
\* two requests, the first built by the client and the second to the
\* 'next' URL of the first response
C17_Witness ==
    /\ gpc = "done"
    /\ modified_since = SomeTime
    /\ Len(FeedRequests(1)) = 2
    /\ FeedRequests(1)[1].ok /\ FeedRequests(1)[2].ok
    /\ FeedRequests(1)[2].k = feed[FirstUrl].next
    /\ FeedRequests(1)[2].a = ""
    /\ Len(yielded) = 2

\* the answer of every duplicate check counts the ticket attaches that
\* succeeded before it, and every call for a pulse yielded earlier was
\* issued before it
CheckSeesTickets ==
    \A m \in 1..Len(calls) :
        calls[m].op = "count" =>
            /\ calls[m].ret =
                 Cardinality({ k \in 1..(m - 1) :
                                 /\ calls[k].op = "ticket" /\ calls[k].ok
                                 /\ calls[k].a = calls[m].a })
            /\ \A k \in 1..Len(calls) :
                (calls[k].op # "feed" /\ calls[k].n < calls[m].n) => k < m
            /\ \A n \in 1..(calls[m].n - 1) :
                yielded[n].run = calls[m].run =>
                    Len(CallsOf("ticket", n)) =
                        Len(SelectSeq(CallsOf("event", n), LAMBDA c : c.ok))

\* a step that issues a feed request is taken when the loop of execute asks
\* for the next pulse, with every pulse yielded so far in a terminal state
\* and every pulse of the current page yielded
RequestAfterTerminal ==
    (Len(calls') = Len(calls) + 1 /\ calls'[Len(calls')].op = "feed") =>
        /\ pc = "next"
        /\ Len(terminal) = Len(yielded)
        /\ gpc = "for" =>
            (all_pulses.has_results => idx = Len(all_pulses.results) + 1)

\* C18: feed reads and repository writes are interleaved lazily.  The
\* request for the next page is issued only after every pulse of the
\* current page was yielded and has reached a terminal state in execute,
\* so the duplicate check of a pulse comes after every call for the pulses
\* yielded before it and its answer counts every ticket attached for them.
C18_LazyInterleaving ==
    /\ []CheckSeesTickets
    /\ [][RequestAfterTerminal]_vars

\* C18 witness: the first page held p1, whose ticket was attached before
\* the second page was requested; the second page held p1 again and its
\* duplicate check found the ticket
C18_Witness ==
    /\ Len(FeedRequests(1)) = 2
    /\ Len(feed[1].results) = 1 /\ Len(feed[2].results) = 1
    /\ Len(terminal) = 2
    /\ terminal[1].pid = "p1" /\ terminal[1].state = "Done"
    /\ terminal[2].pid = "p1" /\ terminal[2].state = "Skipped"
    /\ CallsOf("count", 2)[1].ret = 1

====
